---------------------------- MODULE Spec2Model ----------------------------
(***************************************************************************)
(* Toy robot (src/robot.py): a robot on a MAP_SIZE grid driven by text     *)
(* command lines.                                                          *)
(*                                                                         *)
(* Representation.  A Python str that the program parses or stores (a      *)
(* command line, a token, self.direction) is a sequence of one-character   *)
(* strings, so that strip, split, upper and int act on characters.  Text   *)
(* the program only produces (exception messages, printed lines) is a TLA+ *)
(* string built with \o.  A tuple of ints is a TLA+ tuple.  A dict is a    *)
(* function from its keys.                                                 *)
(***************************************************************************)
EXTENDS Integers, Sequences, FiniteSets, TLC

VARIABLES
    placed,        \* Robot.placed
    pos,           \* Robot.pos: None or <<x, y>>
    direction,     \* Robot.direction: None or a str
    command_map,   \* Robot.command_map: keyword -> executor dict
    status,        \* where Robot.run is: "idle" (not called), "start",
                   \* "running", "done", "exited0", "exited1", "crashed"
    commands,      \* Robot.run: the lines of the command file not yet executed
    raised,        \* the exception the last call on the robot raised, or
                   \* NoException
    printed        \* the lines the last step wrote to standard output

vars == <<placed, pos, direction, command_map, status, commands,
          raised, printed>>

-----------------------------------------------------------------------------
(* Bounds of the inputs                                                    *)

\* PLACE coordinates are drawn from (0 - MaxNeg) .. MaxCoord
MaxNeg == 1
MaxCoord == 5
\* the command files Robot.run reads have at most MaxLines lines
MaxLines == 3

-----------------------------------------------------------------------------
(* Python values                                                           *)

\* None: differs from every tuple of ints and from every str
None == <<"None">>

\* the empty dict {}
EmptyDict == [k \in {} |-> <<>>]

NoException == [type |-> "None", msg |-> ""]
Exception(t, m) == [type |-> t, msg |-> m]

\* str.join of the characters: a parsed str as the text that gets printed
RECURSIVE Str(_)
Str(s) == IF s = <<>> THEN "" ELSE Head(s) \o Str(Tail(s))

Digits == <<"0", "1", "2", "3", "4", "5", "6", "7", "8", "9">>
IsDigit(c) == \E i \in 1..10 : Digits[i] = c
DigitVal(c) == (CHOOSE i \in 1..10 : Digits[i] = c) - 1

\* str(n) for an int n, as characters
RECURSIVE NatChars(_)
NatChars(n) == IF n < 10 THEN <<Digits[n + 1]>>
               ELSE NatChars(n \div 10) \o <<Digits[(n % 10) + 1]>>
IntChars(n) == IF n < 0 THEN <<"-">> \o NatChars(0 - n) ELSE NatChars(n)
\* an int inside an f-string
IntStr(n) == Str(IntChars(n))

\* the characters str.strip() removes
Whitespace == {" ", "\t", "\n"}

RECURSIVE lstrip(_)
lstrip(s) == IF s # <<>> /\ Head(s) \in Whitespace THEN lstrip(Tail(s)) ELSE s
RECURSIVE rstrip(_)
rstrip(s) == IF s # <<>> /\ s[Len(s)] \in Whitespace
             THEN rstrip(SubSeq(s, 1, Len(s) - 1)) ELSE s
\* str.strip()
strip(s) == rstrip(lstrip(s))

\* s.find(sep) from position i on, one-based; 0 when sep does not occur
RECURSIVE find(_, _, _)
find(s, sep, i) ==
    IF i > Len(s) THEN 0 ELSE IF s[i] = sep THEN i ELSE find(s, sep, i + 1)

\* s.split(sep): every occurrence of the character sep separates two parts
RECURSIVE split(_, _)
split(s, sep) ==
    LET i == find(s, sep, 1)
    IN  IF i = 0 THEN <<s>>
        ELSE <<SubSeq(s, 1, i - 1)>> \o split(SubSeq(s, i + 1, Len(s)), sep)

\* fault of split: like s.split(None, 1), any whitespace character separates
split1_any_whitespace(s, sep) ==
    LET at == {i \in 1..Len(s) : s[i] \in Whitespace}
        i == IF at = {} THEN 0 ELSE CHOOSE j \in at : \A k \in at : j <= k
    IN  IF i = 0 THEN <<s>>
        ELSE <<SubSeq(s, 1, i - 1), SubSeq(s, i + 1, Len(s))>>

\* s.split(sep, 1): only the first occurrence separates
split1(s, sep) ==
    LET i == find(s, sep, 1)
    IN  IF i = 0 THEN <<s>>
        ELSE <<SubSeq(s, 1, i - 1), SubSeq(s, i + 1, Len(s))>>

LowerCase == <<"a", "b", "c", "d", "e", "f", "g", "h", "i", "j", "k", "l", "m",
               "n", "o", "p", "q", "r", "s", "t", "u", "v", "w", "x", "y", "z">>
UpperCase == <<"A", "B", "C", "D", "E", "F", "G", "H", "I", "J", "K", "L", "M",
               "N", "O", "P", "Q", "R", "S", "T", "U", "V", "W", "X", "Y", "Z">>
\* str.upper()
upper(s) == [i \in 1..Len(s) |->
                IF \E j \in 1..26 : LowerCase[j] = s[i]
                THEN UpperCase[CHOOSE j \in 1..26 : LowerCase[j] = s[i]]
                ELSE s[i]]

\* int(s): surrounding whitespace is stripped, then an optional sign and
\* decimal digits, single underscores allowed between digits.
\* [ok |-> FALSE] stands for ValueError.  (Non-ASCII digits are outside the
\* alphabet of the inputs.)
RECURSIVE DigitsValue(_, _)
DigitsValue(s, acc) ==
    IF s = <<>> THEN acc
    ELSE IF Head(s) = "_" THEN DigitsValue(Tail(s), acc)
    ELSE DigitsValue(Tail(s), 10 * acc + DigitVal(Head(s)))
int(s) ==
    LET t == strip(s)
        signed == t # <<>> /\ Head(t) \in {"+", "-"}
        body == IF signed THEN Tail(t) ELSE t
        wellFormed ==
            /\ body # <<>>
            /\ IsDigit(body[1]) /\ IsDigit(body[Len(body)])
            /\ \A i \in 1..Len(body) : IsDigit(body[i]) \/ body[i] = "_"
            /\ \A i \in 1..(Len(body) - 1) : ~(body[i] = "_" /\ body[i + 1] = "_")
    IN  IF ~wellFormed THEN [ok |-> FALSE, value |-> 0]
        ELSE [ok |-> TRUE,
              value |-> IF signed /\ Head(t) = "-"
                        THEN 0 - DigitsValue(body, 0) ELSE DigitsValue(body, 0)]

-----------------------------------------------------------------------------
(* Module constants                                                        *)

NORTH == <<"N", "O", "R", "T", "H">>
EAST == <<"E", "A", "S", "T">>
SOUTH == <<"S", "O", "U", "T", "H">>
WEST == <<"W", "E", "S", "T">>

DIRECTIONS == <<NORTH, EAST, SOUTH, WEST>>

\* fault of STEP_BY_DIRECTION: NORTH and SOUTH exchanged
STEP_BY_DIRECTION_swapped(d) ==
    CASE d = NORTH -> <<0, -1>>
      [] d = SOUTH -> <<0, 1>>
      [] d = EAST -> <<1, 0>>
      [] d = WEST -> <<-1, 0>>

STEP_BY_DIRECTION(d) ==
    CASE d = NORTH -> <<0, 1>>
      [] d = SOUTH -> <<0, -1>>
      [] d = EAST -> <<1, 0>>
      [] d = WEST -> <<-1, 0>>

MAP_SIZE == <<5, 5>>
map_size_x == MAP_SIZE[1]
map_size_y == MAP_SIZE[2]

\* the command keywords
PLACE == <<"P", "L", "A", "C", "E">>
LEFT == <<"L", "E", "F", "T">>
RIGHT == <<"R", "I", "G", "H", "T">>
MOVE == <<"M", "O", "V", "E">>
REPORT == <<"R", "E", "P", "O", "R", "T">>
EXIT == <<"E", "X", "I", "T">>


-----------------------------------------------------------------------------
(* class Robot.  A handler takes self = [placed, pos, direction] and its   *)
(* keyword arguments and returns [self, raised, printed]: the fields after *)
(* the call, the exception it raised (or NoException), the lines printed.  *)

Returns(self, out) == [self |-> self, raised |-> NoException, printed |-> out]
Raises(self, t, m) == [self |-> self, raised |-> Exception(t, m), printed |-> <<>>]

InvalidOperationException == "InvalidOperationException"

\* calling a method that declares no **kwargs with a keyword argument
UnexpectedKeyword(self) ==
    Raises(self, "TypeError", "got an unexpected keyword argument")

\* Robot.__init__
NewRobot == [placed |-> FALSE, pos |-> None, direction |-> None]
NewCommandMap ==
    (PLACE :> [function |-> "place"])
    @@ (LEFT :> [function |-> "turn",
                 addtional_parameters |-> ("direction" :> LEFT)])
    @@ (RIGHT :> [function |-> "turn",
                  addtional_parameters |-> ("direction" :> RIGHT)])
    @@ (MOVE :> [function |-> "move"])
    @@ (REPORT :> [function |-> "report"])
    @@ (EXIT :> [function |-> "terminate"])

\* faults of is_valid_pos: the upper bound taken as inclusive; the lower
\* bound not checked
is_valid_pos_inclusive(p) ==
    IF Len(p) # 2 THEN FALSE
    ELSE p[1] \in 0..map_size_x /\ p[2] \in 0..map_size_y
is_valid_pos_no_lower_bound(p) ==
    IF Len(p) # 2 THEN FALSE
    ELSE p[1] < map_size_x /\ p[2] < map_size_y

is_valid_pos(p) ==
    IF Len(p) # 2 THEN FALSE
    ELSE p[1] \in 0..(map_size_x - 1) /\ p[2] \in 0..(map_size_y - 1)

\* fault of is_valid_direction: the comparison ignores case
is_valid_direction_any_case(d) ==
    \E i \in 1..Len(DIRECTIONS) : DIRECTIONS[i] = upper(d)

is_valid_direction(d) == \E i \in 1..Len(DIRECTIONS) : DIRECTIONS[i] = d

NotPlacedMessage ==
    "A robot must be placed before any other command can be executed. Abort."

\* the decorator: check_placed(self, **kwargs) around a method, whose call
\* f(self, **kwargs) is made (and `call` evaluated) only when placed
should_have_been_placed(self, call) ==
    IF ~self.placed
    THEN Raises(self, InvalidOperationException, NotPlacedMessage)
    ELSE call

PlaceFormat == "Expect command to be \"PLACE <X>, <Y>, <Facing>\", got \"PLACE"
InvalidPositionMessage ==
    "Invalid position in the map, should be within 0 to " \o IntStr(map_size_x)
    \o " in X and 0 to " \o IntStr(map_size_y) \o " in Y."
InvalidDirectionMessage ==
    "Invalid direction, should be one of ('NORTH', 'EAST', 'SOUTH', 'WEST')"

\* Robot.place from `location_details = ...` on
place_details(self, action_details) ==
    LET parts == split(action_details, ",")
        location_details == [i \in 1..Len(parts) |-> strip(parts[i])]
    IN  IF Len(location_details) # 3
        THEN Raises(self, InvalidOperationException,
                    PlaceFormat \o " " \o Str(action_details) \o "\"")
        ELSE
        LET pos_x == location_details[1]
            pos_y == location_details[2]
            dir == location_details[3]
            x == int(pos_x)
            y == int(pos_y)
        IN  IF ~x.ok
            THEN Raises(self, "ValueError", "invalid literal for int() with base 10: '"
                                            \o Str(pos_x) \o "'")
            ELSE IF ~y.ok
            THEN Raises(self, "ValueError", "invalid literal for int() with base 10: '"
                                            \o Str(pos_y) \o "'")
            ELSE
            LET p == <<x.value, y.value>>
            IN  IF ~is_valid_pos(p)
                THEN Raises(self, InvalidOperationException, InvalidPositionMessage)
                ELSE IF ~is_valid_direction(dir)
                THEN Raises(self, InvalidOperationException, InvalidDirectionMessage)
                ELSE Returns([placed |-> TRUE, pos |-> p, direction |-> dir], <<>>)

\* fault of place: a missing action_details defaults to the empty str
place_default_details(self, kwargs) ==
    place_details(self, IF "action_details" \in DOMAIN kwargs
                        THEN kwargs["action_details"] ELSE <<>>)

\* fault of place: the old placement is dropped before the arguments are
\* checked
place_resets_first(self, kwargs) ==
    IF "action_details" \notin DOMAIN kwargs
    THEN Raises(NewRobot, InvalidOperationException, PlaceFormat \o "\"")
    ELSE place_details(NewRobot, kwargs["action_details"])
place(self, kwargs) ==
    IF "action_details" \notin DOMAIN kwargs
    THEN Raises(self, InvalidOperationException, PlaceFormat \o "\"")
    ELSE place_details(self, kwargs["action_details"])

\* str() of a pair of ints, as an f-string prints it
TupleStr(p) == "(" \o IntStr(p[1]) \o ", " \o IntStr(p[2]) \o ")"

\* faults of move: self.pos is assigned before the destination is checked;
\* the message names the current position
move_body_commit_first(self, kwargs) ==
    IF DOMAIN kwargs # {} THEN UnexpectedKeyword(self)
    ELSE
    LET step == STEP_BY_DIRECTION(self.direction)
        next_pos == <<self.pos[1] + step[1], self.pos[2] + step[2]>>
        moved == [self EXCEPT !.pos = next_pos]
    IN  IF ~is_valid_pos(next_pos)
        THEN Raises(moved, InvalidOperationException,
                    "Destination " \o TupleStr(next_pos) \o " cannot be reached.")
        ELSE Returns(moved, <<>>)
move_body_names_current(self, kwargs) ==
    IF DOMAIN kwargs # {} THEN UnexpectedKeyword(self)
    ELSE
    LET step == STEP_BY_DIRECTION(self.direction)
        next_pos == <<self.pos[1] + step[1], self.pos[2] + step[2]>>
    IN  IF ~is_valid_pos(next_pos)
        THEN Raises(self, InvalidOperationException,
                    "Destination " \o TupleStr(self.pos) \o " cannot be reached.")
        ELSE Returns([self EXCEPT !.pos = next_pos], <<>>)

move_body(self, kwargs) ==
    IF DOMAIN kwargs # {} THEN UnexpectedKeyword(self)
    ELSE
    LET step == STEP_BY_DIRECTION(self.direction)
        next_pos == <<self.pos[1] + step[1], self.pos[2] + step[2]>>
    IN  IF ~is_valid_pos(next_pos)
        THEN Raises(self, InvalidOperationException,
                    "Destination " \o TupleStr(next_pos) \o " cannot be reached.")
        ELSE Returns([self EXCEPT !.pos = next_pos], <<>>)
move(self, kwargs) == should_have_been_placed(self, move_body(self, kwargs))

\* DIRECTIONS.index(d), zero-based
index(d) == (CHOOSE i \in 1..Len(DIRECTIONS) : DIRECTIONS[i] = d) - 1

\* fault of turn: LEFT steps forward in DIRECTIONS and RIGHT backward
turn_body_swapped(self, kwargs) ==
    LET current_direction_index == index(self.direction)
    IN  IF kwargs["direction"] = LEFT
        THEN Returns([self EXCEPT !.direction =
                         DIRECTIONS[((current_direction_index + 1) % 4) + 1]], <<>>)
        ELSE IF kwargs["direction"] = RIGHT
        THEN Returns([self EXCEPT !.direction =
                         DIRECTIONS[((current_direction_index - 1) % 4) + 1]], <<>>)
        ELSE Raises(self, InvalidOperationException,
                    "Turning direction should be either LEFT or RIGHT, got "
                    \o Str(kwargs["direction"]))
\* fault of turn: the index stops at the ends of DIRECTIONS instead of
\* wrapping around
turn_body_no_wrap(self, kwargs) ==
    LET i == index(self.direction)
    IN  IF kwargs["direction"] = RIGHT
        THEN Returns([self EXCEPT !.direction =
                         DIRECTIONS[(IF i + 1 > 3 THEN 3 ELSE i + 1) + 1]], <<>>)
        ELSE IF kwargs["direction"] = LEFT
        THEN Returns([self EXCEPT !.direction =
                         DIRECTIONS[(IF i - 1 < 0 THEN 0 ELSE i - 1) + 1]], <<>>)
        ELSE Raises(self, InvalidOperationException,
                    "Turning direction should be either LEFT or RIGHT, got "
                    \o Str(kwargs["direction"]))
\* fault of turn: a turning direction that is neither LEFT nor RIGHT is
\* ignored
turn_body_ignores_invalid(self, kwargs) ==
    LET current_direction_index == index(self.direction)
    IN  IF kwargs["direction"] = RIGHT
        THEN Returns([self EXCEPT !.direction =
                         DIRECTIONS[((current_direction_index + 1) % 4) + 1]], <<>>)
        ELSE IF kwargs["direction"] = LEFT
        THEN Returns([self EXCEPT !.direction =
                         DIRECTIONS[((current_direction_index - 1) % 4) + 1]], <<>>)
        ELSE Returns(self, <<>>)
\* fault of turn: the text after the keyword, when there is one, is taken
\* as the turning direction
turn_body_reads_details(self, kwargs) ==
    LET turning_direction == IF "action_details" \in DOMAIN kwargs
                             THEN kwargs["action_details"]
                             ELSE kwargs["direction"]
        current_direction_index == index(self.direction)
    IN  IF turning_direction = RIGHT
        THEN Returns([self EXCEPT !.direction =
                         DIRECTIONS[((current_direction_index + 1) % 4) + 1]], <<>>)
        ELSE IF turning_direction = LEFT
        THEN Returns([self EXCEPT !.direction =
                         DIRECTIONS[((current_direction_index - 1) % 4) + 1]], <<>>)
        ELSE Raises(self, InvalidOperationException,
                    "Turning direction should be either LEFT or RIGHT, got "
                    \o Str(turning_direction))
turn_body(self, kwargs) ==
    IF "direction" \notin DOMAIN kwargs
    THEN Raises(self, "KeyError", "'direction'")
    ELSE
    LET turning_direction == kwargs["direction"]
        current_direction_index == index(self.direction)
    IN  IF turning_direction = RIGHT
        THEN Returns([self EXCEPT !.direction =
                         DIRECTIONS[((current_direction_index + 1) % 4) + 1]], <<>>)
        ELSE IF turning_direction = LEFT
        THEN Returns([self EXCEPT !.direction =
                         DIRECTIONS[((current_direction_index - 1) % 4) + 1]], <<>>)
        ELSE Raises(self, InvalidOperationException,
                    "Turning direction should be either LEFT or RIGHT, got "
                    \o Str(turning_direction))
\* fault of turn: the turning direction is checked before the placement
turn_checks_direction_first(self, kwargs) ==
    IF "direction" \in DOMAIN kwargs /\ kwargs["direction"] \notin {LEFT, RIGHT}
    THEN Raises(self, InvalidOperationException,
                "Turning direction should be either LEFT or RIGHT, got "
                \o Str(kwargs["direction"]))
    ELSE should_have_been_placed(self, turn_body(self, kwargs))
turn(self, kwargs) == should_have_been_placed(self, turn_body(self, kwargs))

\* fault of report: the fields are separated by "," alone
report_body_no_spaces(self, kwargs) ==
    IF DOMAIN kwargs # {} THEN UnexpectedKeyword(self)
    ELSE Returns(self, <<IntStr(self.pos[1]) \o "," \o IntStr(self.pos[2])
                         \o "," \o Str(self.direction)>>)
\* fault of report: the row is printed before the column
report_body_row_first(self, kwargs) ==
    Returns(self, <<IntStr(self.pos[2]) \o ", " \o IntStr(self.pos[1]) \o ", "
                    \o Str(self.direction)>>)
report_body(self, kwargs) ==
    IF DOMAIN kwargs # {} THEN UnexpectedKeyword(self)
    ELSE Returns(self, <<IntStr(self.pos[1]) \o ", " \o IntStr(self.pos[2])
                         \o ", " \o Str(self.direction)>>)
report(self, kwargs) == should_have_been_placed(self, report_body(self, kwargs))

\* print, then sys.exit(0): SystemExit carries the exit status
\* fault of terminate: decorated with should_have_been_placed like move,
\* turn and report
terminate_guarded(self, kwargs) ==
    should_have_been_placed(self,
        IF DOMAIN kwargs # {} THEN UnexpectedKeyword(self)
        ELSE [self |-> self, raised |-> Exception("SystemExit", "0"),
              printed |-> <<"End of service.">>])
\* fault of terminate: the message is printed and the method returns
terminate_prints_only(self, kwargs) ==
    IF DOMAIN kwargs # {} THEN UnexpectedKeyword(self)
    ELSE Returns(self, <<"End of service.">>)
terminate(self, kwargs) ==
    IF DOMAIN kwargs # {} THEN UnexpectedKeyword(self)
    ELSE [self |-> self, raised |-> Exception("SystemExit", "0"),
          printed |-> <<"End of service.">>]

\* executor['function'](**parameters)
Invoke(function, self, parameters) ==
    CASE function = "place" -> place(self, parameters)
      [] function = "turn" -> turn(self, parameters)
      [] function = "move" -> move(self, parameters)
      [] function = "report" -> report(self, parameters)
      [] function = "terminate" -> terminate(self, parameters)

\* Robot.execute_command: returns [self, command_map, raised, printed].
\* executor.get('addtional_parameters', {}) is the dict stored in command_map
\* when the executor has one, so the assignment of action_details is kept
\* there; otherwise it is a fresh dict that is dropped after the call.
execute_command(self, cmap, command) ==
    LET command_seq == split1(strip(command), " ")
        action == command_seq[1]
    IN  IF action \notin DOMAIN cmap
        THEN [self |-> self, command_map |-> cmap, printed |-> <<>>,
              raised |-> Exception(InvalidOperationException, "Invalid command. Abort.")]
        ELSE
        LET executor == cmap[action]
            shared == "addtional_parameters" \in DOMAIN executor
            got == IF shared THEN executor.addtional_parameters ELSE EmptyDict
            parameters ==
                IF Len(command_seq) > 1
                THEN [k \in DOMAIN got \cup {"action_details"} |->
                         IF k = "action_details" THEN command_seq[2] ELSE got[k]]
                ELSE got
            r == Invoke(executor.function, self, parameters)
        IN  [self |-> r.self, raised |-> r.raised, printed |-> r.printed,
             command_map |->
                 IF shared
                 THEN [cmap EXCEPT ![action].addtional_parameters = parameters]
                 ELSE cmap]

-----------------------------------------------------------------------------
(* The command lines given to the robot                                    *)

Line(keyword, details) == keyword \o <<" ">> \o details
Csv(x, y, d) == x \o <<",">> \o y \o <<",">> \o d

Coords == (0 - MaxNeg)..MaxCoord
InGrid(x, y) == x \in 0..(map_size_x - 1) /\ y \in 0..(map_size_y - 1)

Headings == {NORTH, EAST, SOUTH, WEST}
\* third tokens that are no heading
UP == <<"U", "P">>
north == <<"n", "o", "r", "t", "h">>
BadHeadings == {UP, north, <<>>}

\* PLACE x,y,HEADING for every position of the grid and every heading
PlaceInGridLines ==
    {Line(PLACE, Csv(IntChars(x), IntChars(y), h)) :
        x \in 0..(map_size_x - 1), y \in 0..(map_size_y - 1), h \in Headings}

\* PLACE x,y,d for every pair of Coords outside the grid, d a heading or
\* (on the diagonal) also no heading
OutsidePairs == {p \in Coords \X Coords : ~InGrid(p[1], p[2])}
PlaceOutsideLines ==
    UNION { {Line(PLACE, Csv(IntChars(p[1]), IntChars(p[2]), d)) :
                d \in IF p[1] = p[2] THEN {NORTH, UP} ELSE {NORTH}} :
            p \in OutsidePairs }

\* PLACE with a position of the grid and a third token that is no heading
PlaceBadHeadingLines ==
    {Line(PLACE, Csv(IntChars(p[1]), IntChars(p[2]), d)) :
        p \in {<<0, 0>>, <<4, 4>>}, d \in BadHeadings}

\* PLACE with no argument, or one that has not three comma-separated parts
PlaceNoArgumentLines == {PLACE, PLACE \o <<" ">>, <<" ">> \o PLACE}
PlaceWrongCountLines ==
    { Line(PLACE, <<"1", ",", "2">>),
      Line(PLACE, NORTH),
      Line(PLACE, Csv(<<"1">>, <<"2">>, NORTH) \o <<",">>),
      Line(PLACE, Csv(<<"A">>, <<"B">>, <<"C">>) \o <<",">> \o <<"D">>) }

\* PLACE with three parts of which the first or the second is no integer
PlaceNotIntegerLines ==
    { Line(PLACE, Csv(<<"A">>, <<"B">>, NORTH)),
      Line(PLACE, Csv(<<"1">>, <<"B">>, NORTH)),
      Line(PLACE, Csv(<<"A">>, <<"9">>, UP)),
      Line(PLACE, Csv(<<>>, <<>>, <<>>)),
      Line(PLACE, Csv(<<"-">>, <<"1">>, EAST)),
      Line(PLACE, Csv(<<"1">>, <<"1", "_">>, EAST)) }

\* PLACE whose integers are written another way than str() writes them
PlaceOtherSpellingLines ==
    { Line(PLACE, <<" ">> \o Csv(<<"1", " ">>, <<" ", "2">>, <<" ">> \o SOUTH)),
      Line(PLACE, Csv(<<"+", "1">>, <<"0", "0">>, EAST)),
      Line(PLACE, Csv(<<"0", "4">>, <<"-", "0">>, WEST)),
      Line(PLACE, Csv(<<"1", "_", "0">>, <<"0">>, EAST)),
      Line(PLACE, Csv(<<"0", "_", "3">>, <<"3">>, NORTH)),
      <<" ">> \o Line(PLACE, Csv(<<"3">>, <<"3">>, NORTH)) \o <<" ">> }

PlaceLines ==
    PlaceInGridLines \cup PlaceOutsideLines \cup PlaceBadHeadingLines
    \cup PlaceNoArgumentLines \cup PlaceWrongCountLines
    \cup PlaceNotIntegerLines \cup PlaceOtherSpellingLines

\* the commands that take no argument, bare and surrounded by whitespace
BareLines ==
    {LEFT, RIGHT, MOVE, REPORT, EXIT, MOVE \o <<" ">>, <<" ">> \o REPORT,
     <<"\t">> \o LEFT}
\* ... and written with trailing text
TrailingLines ==
    {Line(LEFT, RIGHT), Line(RIGHT, <<"X">>), Line(MOVE, <<"X">>),
     Line(REPORT, <<"X">>), Line(EXIT, <<"X">>)}
\* lines whose keyword is no command
UnknownLines ==
    {<<>>, <<" ">>, <<"J", "U", "M", "P">>, <<"m", "o", "v", "e">>,
     MOVE \o <<"S">>, PLACE \o <<"\t">> \o Csv(<<"1">>, <<"2">>, NORTH),
     PLACE \o <<",">> \o Csv(<<"1">>, <<"2">>, NORTH),
     Line(<<"L", "E">>, <<"F", "T">>)}

CommandLines == PlaceLines \cup BareLines \cup TrailingLines \cup UnknownLines

\* the turning directions given to Robot.turn when it is called directly
SOME_DIRECTION == <<"S", "O", "M", "E", " ", "D", "I", "R">>
TurnArguments == {LEFT, RIGHT, SOME_DIRECTION}

-----------------------------------------------------------------------------
(* A client (such as the unit tests) calling the robot                     *)

Self == [placed |-> placed, pos |-> pos, direction |-> direction]

Init ==
    /\ placed = NewRobot.placed
    /\ pos = NewRobot.pos
    /\ direction = NewRobot.direction
    /\ command_map = NewCommandMap
    /\ status = "idle"
    /\ commands = <<>>
    /\ raised = NoException
    /\ printed = <<>>

\* what robot.execute_command(command) does in the current state
Outcome(command) == execute_command(Self, command_map, command)
\* what robot.turn(direction=d) does in the current state
TurnOutcome(d) == turn(Self, "direction" :> d)

\* robot.execute_command(command); an exception goes to the caller
CallExecuteCommand(command) ==
    \E r \in {Outcome(command)} :
        /\ status = "idle"
        /\ placed' = r.self.placed
        /\ pos' = r.self.pos
        /\ direction' = r.self.direction
        /\ command_map' = r.command_map
        /\ raised' = r.raised
        /\ printed' = r.printed
        /\ UNCHANGED <<status, commands>>

\* robot.turn(direction=d)
CallTurn(d) ==
    \E r \in {TurnOutcome(d)} :
        /\ status = "idle"
        /\ placed' = r.self.placed
        /\ pos' = r.self.pos
        /\ direction' = r.self.direction
        /\ raised' = r.raised
        /\ printed' = r.printed
        /\ UNCHANGED <<command_map, status, commands>>

Next ==
    \/ \E command \in CommandLines : CallExecuteCommand(command)
    \/ \E d \in TurnArguments : CallTurn(d)

Spec == Init /\ [][Next]_vars

-----------------------------------------------------------------------------
(* Robot.run: the driver reading a command file                            *)

\* the lines a command file is made of, as written in the file
FileLines ==
    { Line(PLACE, Csv(<<"1">>, <<"2">>, EAST)),
      Line(<<"p", "l", "a", "c", "e">>, Csv(<<"0">>, <<"4">>, north)),
      MOVE, LEFT, REPORT, EXIT, <<" ", "e", "x", "i", "t">>,
      Line(PLACE, Csv(<<"A">>, <<"B">>, NORTH)),
      Line(<<"M", "o", "v", "e">>, <<"x">>),
      <<>> }

\* every sequence of at most n FileLines
RECURSIVE LineSeqs(_)
LineSeqs(n) ==
    IF n = 0 THEN {<<>>}
    ELSE LET shorter == LineSeqs(n - 1)
         IN  shorter \cup {Append(ls, l) : ls \in shorter, l \in FileLines}

\* "\n".join(lines): the text of a file
RECURSIVE JoinLines(_)
JoinLines(lines) ==
    IF lines = <<>> THEN <<>>
    ELSE IF Len(lines) = 1 THEN lines[1]
    ELSE lines[1] \o <<"\n">> \o JoinLines(Tail(lines))

CommandFiles == {JoinLines(ls) : ls \in LineSeqs(MaxLines)}

\* the path typed at the prompt
FilePath == <<"c", "m", "d">>

RunInit ==
    /\ placed = NewRobot.placed
    /\ pos = NewRobot.pos
    /\ direction = NewRobot.direction
    /\ command_map = NewCommandMap
    /\ status = "start"
    /\ commands = <<>>
    /\ raised = NoException
    /\ printed = <<>>

\* input(), open() and read(): the file holds `content`, or does not exist
\* (found = FALSE): FileNotFoundError is printed and the exit status is 1
RunOpen(found, content) ==
    /\ status = "start"
    /\ IF found
       THEN /\ commands' = split(strip(content), "\n")
            /\ status' = "running"
            /\ printed' = <<>>
       ELSE /\ commands' = <<>>
            /\ status' = "exited1"
            /\ printed' = <<Str(FilePath) \o " does not exists. Failed to run.">>
    /\ UNCHANGED <<placed, pos, direction, command_map, raised>>

\* where run is after execute_command raised `exception` (or none)
StatusAfter(exception) ==
    CASE exception.type \in {"None", InvalidOperationException} -> "running"
      [] exception.type = "SystemExit" -> "exited" \o exception.msg
      [] OTHER -> "crashed"

\* one turn of the loop: upper, execute_command, except
\* InvalidOperationException: print.  SystemExit ends the process with its
\* status; any other exception is not caught and ends run with a traceback.
RunCommand ==
    /\ status = "running"
    /\ commands # <<>>
    /\ \E r \in {Outcome(upper(Head(commands)))} :
        /\ placed' = r.self.placed
        /\ pos' = r.self.pos
        /\ direction' = r.self.direction
        /\ command_map' = r.command_map
        /\ raised' = r.raised
        /\ printed' = IF r.raised.type = InvalidOperationException
                      THEN r.printed \o <<r.raised.msg>>
                      ELSE r.printed
        /\ status' = StatusAfter(r.raised)
    /\ commands' = Tail(commands)

\* the loop is over: run returns
RunEnd ==
    /\ status = "running"
    /\ commands = <<>>
    /\ status' = "done"
    /\ UNCHANGED <<placed, pos, direction, command_map, commands, raised, printed>>

RunNext ==
    \/ \E content \in CommandFiles : RunOpen(TRUE, content)
    \/ RunOpen(FALSE, <<>>)
    \/ RunCommand
    \/ RunEnd

RunSpec == RunInit /\ [][RunNext]_vars

-----------------------------------------------------------------------------
(* Properties.  Outcome(c) is the step CallExecuteCommand(c) takes from    *)
(* the current state (and RunCommand, for the upper-cased line), so a      *)
(* property of Outcome in every reachable state is a property of every     *)
(* call the robot can receive.                                             *)

Unplaced(self) == self = [placed |-> FALSE, pos |-> None, direction |-> None]
Fails(r, message) == r.raised = Exception(InvalidOperationException, message)

\* the lines of the commands that need a placed robot
PlacedOnlyLines == (BareLines \cup TrailingLines) \ {EXIT, Line(EXIT, <<"X">>)}

\* C1: in every reachable state either placed is false and pos and
\* direction are None, or placed is true, pos is a pair inside the grid and
\* direction is one of NORTH, EAST, SOUTH, WEST.
C1_PlacedIffPositioned ==
    \/ /\ placed = FALSE
       /\ pos = None
       /\ direction = None
    \/ /\ placed = TRUE
       /\ pos # None /\ Len(pos) = 2
       /\ pos[1] >= 0 /\ pos[1] < map_size_x
       /\ pos[2] >= 0 /\ pos[2] < map_size_y
       /\ direction \in {NORTH, EAST, SOUTH, WEST}

\* a MOVE off the north edge has just been refused in the corner (0, 4)
C1_Witness ==
    /\ placed /\ pos = <<0, 4>> /\ direction = NORTH
    /\ raised.msg = "Destination (0, 5) cannot be reached."

\* C2: a call of execute_command that raises, whatever the line and the
\* state, leaves placed, pos and direction as they were; so does a failing
\* PLACE given to a placed robot.
C2_FailedCallLeavesStateUnchanged ==
    /\ \A c \in CommandLines :
          LET r == Outcome(c)
          IN  r.raised # NoException => r.self = Self
    /\ \A d \in TurnArguments :
          LET r == TurnOutcome(d)
          IN  r.raised # NoException => r.self = Self

\* a PLACE outside the grid has just failed on a placed robot
C2_Witness ==
    /\ placed /\ pos = <<3, 1>> /\ direction = WEST
    /\ raised = Exception(InvalidOperationException, InvalidPositionMessage)
    /\ \E c \in PlaceBadHeadingLines : Outcome(c).raised # NoException

\* C3: while the robot is unplaced, MOVE, LEFT, RIGHT and REPORT (bare or
\* with trailing text) fail with the not-placed message and leave the robot
\* unplaced with no pos and no direction; turn fails that way whatever its
\* turning direction.
C3_NotPlacedFirst ==
    ~placed =>
        /\ \A c \in PlacedOnlyLines :
              LET r == Outcome(c)
              IN  Fails(r, NotPlacedMessage) /\ Unplaced(r.self)
        /\ \A d \in TurnArguments :
              LET r == TurnOutcome(d)
              IN  Fails(r, NotPlacedMessage) /\ Unplaced(r.self)
        /\ NotPlacedMessage =
             "A robot must be placed before any other command can be executed. Abort."

\* a command has just been refused on the unplaced robot
C3_Witness ==
    /\ Unplaced(Self)
    /\ raised = Exception(InvalidOperationException, NotPlacedMessage)

\* C4: PLACE x,y,HEADING with (x, y) in the grid and HEADING one of the four
\* succeeds from every state and gives placed, pos = (x, y), direction =
\* HEADING; REPORT right after prints "x, y, HEADING".
C4_PlaceInGridSucceeds ==
    /\ \A x \in 0..(map_size_x - 1), y \in 0..(map_size_y - 1), h \in Headings :
          LET r == Outcome(Line(PLACE, Csv(IntChars(x), IntChars(y), h)))
              after == execute_command(r.self, r.command_map, REPORT)
          IN  /\ r.raised = NoException
              /\ r.self = [placed |-> TRUE, pos |-> <<x, y>>, direction |-> h]
              /\ after.raised = NoException
              /\ after.printed = <<IntStr(x) \o ", " \o IntStr(y) \o ", " \o Str(h)>>
    /\ LET r == Outcome(Line(PLACE, <<"1", ",", "2", ",">> \o EAST))
       IN  execute_command(r.self, r.command_map, REPORT).printed = <<"1, 2, EAST">>

\* a robot placed at (4, 0) facing WEST has reported, and a PLACE moves it
C4_Witness ==
    /\ placed /\ pos = <<4, 0>> /\ direction = WEST
    /\ raised = NoException /\ printed = <<"4, 0, WEST">>
    /\ Outcome(Line(PLACE, <<"0", ",", "3", ",">> \o SOUTH)).self =
          [placed |-> TRUE, pos |-> <<0, 3>>, direction |-> SOUTH]

\* C5: PLACE x,y,d with (x, y) outside the grid fails on an unplaced robot
\* with the invalid-position message, which states the bounds, and leaves it
\* unplaced, whatever d is.
C5_PlaceOutsideFails ==
    ~placed =>
        /\ \A p \in OutsidePairs, d \in Headings \cup BadHeadings :
              LET r == Outcome(Line(PLACE, Csv(IntChars(p[1]), IntChars(p[2]), d)))
              IN  Fails(r, InvalidPositionMessage) /\ Unplaced(r.self)
        /\ InvalidPositionMessage =
             "Invalid position in the map, should be within 0 to 5 in X and 0 to 5 in Y."

\* a PLACE outside the grid has just failed on the unplaced robot
C5_Witness ==
    /\ Unplaced(Self)
    /\ raised = Exception(InvalidOperationException, InvalidPositionMessage)

\* C6: PLACE with a position of the grid and a third part that is not one
\* of the four headings fails with the invalid-direction message, which
\* lists the four names; an unplaced robot remains unplaced.
C6_PlaceBadHeadingFails ==
    \A x \in 0..(map_size_x - 1), y \in 0..(map_size_y - 1), d \in BadHeadings :
        LET r == Outcome(Line(PLACE, Csv(IntChars(x), IntChars(y), d)))
        IN  /\ Fails(r, "Invalid direction, should be one of "
                        \o "('NORTH', 'EAST', 'SOUTH', 'WEST')")
            /\ ~placed => Unplaced(r.self)

\* a PLACE with a bad heading has just failed on the unplaced robot
C6_Witness ==
    /\ Unplaced(Self)
    /\ raised = Exception(InvalidOperationException, InvalidDirectionMessage)

\* the arguments of PlaceWrongCountLines
WrongCountDetails ==
    { <<"1", ",", "2">>, NORTH, Csv(<<"1">>, <<"2">>, NORTH) \o <<",">>,
      Csv(<<"A">>, <<"B">>, <<"C">>) \o <<",">> \o <<"D">> }

\* C7: PLACE with no argument fails with the missing-argument message, PLACE
\* with an argument of other than three comma-separated parts fails with the
\* malformed-argument message (which repeats the argument); both leave
\* placed, pos and direction unchanged.
C7_PlaceArgumentShape ==
    /\ \A c \in PlaceNoArgumentLines :
          LET r == Outcome(c)
          IN  /\ Fails(r, "Expect command to be \"PLACE <X>, <Y>, <Facing>\", got \"PLACE\"")
              /\ r.self = Self
    /\ \A a \in WrongCountDetails :
          LET r == Outcome(Line(PLACE, a))
          IN  /\ Fails(r, "Expect command to be \"PLACE <X>, <Y>, <Facing>\", got \"PLACE "
                          \o Str(a) \o "\"")
              /\ r.self = Self
    /\ Fails(Outcome(Line(PLACE, <<"1", ",", "2">>)),
             "Expect command to be \"PLACE <X>, <Y>, <Facing>\", got \"PLACE 1,2\"")

\* a bare PLACE has just failed on a placed robot, which a PLACE 1,2 will
\* not move either
C7_Witness ==
    /\ placed /\ pos = <<2, 2>> /\ direction = EAST
    /\ raised = Exception(InvalidOperationException,
                          "Expect command to be \"PLACE <X>, <Y>, <Facing>\", got \"PLACE\"")
    /\ Outcome(Line(PLACE, <<"1", ",", "2">>)).self = Self

\* C8 (as claimed): when run comes to a PLACE line of three parts whose
\* first or second part is no integer, the line fails with
\* InvalidOperationException, the state is unchanged and run goes on.
C8_NonNumericPlaceIsTypedError ==
    (status = "running" /\ commands # <<>>
        /\ upper(Head(commands)) \in PlaceNotIntegerLines) =>
            LET r == Outcome(upper(Head(commands)))
            IN  /\ r.raised.type = InvalidOperationException
                /\ r.self = Self
                /\ StatusAfter(r.raised) = "running"

\* the claim's step table and candidate position
ClaimedStep(d) ==
    CASE d = NORTH -> <<0, 1>> [] d = SOUTH -> <<0, 0 - 1>>
      [] d = EAST -> <<1, 0>> [] d = WEST -> <<0 - 1, 0>>
Candidate == <<pos[1] + ClaimedStep(direction)[1], pos[2] + ClaimedStep(direction)[2]>>
MoveLines == {MOVE, MOVE \o <<" ">>}

\* C9: on a placed robot whose candidate position pos + step(direction) is
\* inside the grid, MOVE succeeds, sets pos to the candidate and leaves
\* direction and placed unchanged.
C9_MoveInsideGrid ==
    (placed /\ InGrid(Candidate[1], Candidate[2])) =>
        \A c \in MoveLines :
            LET r == Outcome(c)
            IN  /\ r.raised = NoException
                /\ r.self = [placed |-> TRUE, pos |-> Candidate, direction |-> direction]
                /\ (pos = <<2, 2>> /\ direction = NORTH) => r.self.pos = <<2, 3>>
                /\ (pos = <<2, 2>> /\ direction = SOUTH) => r.self.pos = <<2, 1>>
                /\ (pos = <<2, 2>> /\ direction = WEST) => r.self.pos = <<1, 2>>
                /\ (pos = <<2, 2>> /\ direction = EAST) => r.self.pos = <<3, 2>>

\* the robot is at (2, 2) facing SOUTH, where MOVE takes it to (2, 1)
C9_Witness ==
    /\ placed /\ pos = <<2, 2>> /\ direction = SOUTH
    /\ raised = NoException
    /\ Outcome(MOVE).self.pos = <<2, 1>>

\* C10: on a placed robot whose candidate position is outside the grid,
\* MOVE fails with the unreachable-destination message, which names the
\* candidate, and pos and direction are unchanged.
C10_MoveOffGridFails ==
    (placed /\ ~InGrid(Candidate[1], Candidate[2])) =>
        \A c \in MoveLines :
            LET r == Outcome(c)
            IN  /\ Fails(r, "Destination (" \o IntStr(Candidate[1]) \o ", "
                            \o IntStr(Candidate[2]) \o ") cannot be reached.")
                /\ r.self = Self
                /\ (pos = <<0, 4>> /\ direction = NORTH) =>
                       r.raised.msg = "Destination (0, 5) cannot be reached."
                /\ (pos = <<0, 0>> /\ direction = SOUTH) =>
                       r.raised.msg = "Destination (0, -1) cannot be reached."

\* a MOVE off the west edge has just been refused at (0, 2)
C10_Witness ==
    /\ placed /\ pos = <<0, 2>> /\ direction = WEST
    /\ raised = Exception(InvalidOperationException,
                          "Destination (-1, 2) cannot be reached.")


\* the heading a quarter turn clockwise of d, and counter-clockwise of d
Clockwise(d) ==
    CASE d = NORTH -> EAST
      [] d = EAST -> SOUTH
      [] d = SOUTH -> WEST
      [] d = WEST -> NORTH
CounterClockwise(d) ==
    CASE d = NORTH -> WEST
      [] d = WEST -> SOUTH
      [] d = SOUTH -> EAST
      [] d = EAST -> NORTH
\* the lines that dispatch to turn, bare and with trailing text
RightLines == {RIGHT, Line(RIGHT, <<"X">>)}
LeftLines == {LEFT, <<"\t">> \o LEFT, Line(LEFT, RIGHT)}
\* r is a successful turn of the placed robot to heading d
TurnedTo(r, d) ==
    /\ r.raised = NoException
    /\ r.printed = <<>>
    /\ r.self = [placed |-> TRUE, pos |-> pos, direction |-> d]

\* C11: on a placed robot RIGHT sets the heading to the next and LEFT to the
\* previous element of the cycle NORTH, EAST, SOUTH, WEST (LEFT of NORTH is
\* WEST, RIGHT of WEST is NORTH); the turn always succeeds and changes
\* neither pos nor placed.
C11_TurnsQuarter ==
    placed =>
        /\ \A c \in RightLines : TurnedTo(Outcome(c), Clockwise(direction))
        /\ \A c \in LeftLines : TurnedTo(Outcome(c), CounterClockwise(direction))
        /\ TurnedTo(TurnOutcome(RIGHT), Clockwise(direction))
        /\ TurnedTo(TurnOutcome(LEFT), CounterClockwise(direction))
\* a placed robot facing WEST after a successful command: RIGHT takes it to
\* NORTH and LEFT to SOUTH
C11_Witness ==
    /\ placed /\ direction = WEST /\ pos = <<1, 1>>
    /\ raised = NoException /\ printed = <<>>
    /\ Outcome(RIGHT).self.direction = NORTH
    /\ Outcome(LEFT).self.direction = SOUTH


\* the outcome of the command c issued right after the outcome r
After(r, c) == execute_command(r.self, r.command_map, c)
\* the four outcomes r1..r4 of issuing c four times in a row from the
\* current state come back to the current heading and position, each
\* succeeds, and the three headings in between differ from the current one
FourTimesClosed(c) ==
    \A r1 \in {Outcome(c)} : \A r2 \in {After(r1, c)} :
    \A r3 \in {After(r2, c)} : \A r4 \in {After(r3, c)} :
        /\ \A r \in {r1, r2, r3, r4} : r.raised = NoException /\ r.self.placed
        /\ r4.self.direction = direction
        /\ \A r \in {r1, r2, r3, r4} : r.self.pos = pos
        /\ \A r \in {r1, r2, r3} : r.self.direction # direction

\* C12: from every placed state and every heading, four LEFT commands in a
\* row, and likewise four RIGHT commands, return to exactly the original
\* heading and position, and the three headings passed through all differ
\* from the original.
C12_FourTurnsClose ==
    placed => FourTimesClosed(LEFT) /\ FourTimesClosed(RIGHT)
\* a placed robot facing SOUTH after a successful command: three LEFT pass
\* EAST, NORTH and end at WEST, three RIGHT end at EAST
C12_Witness ==
    /\ placed /\ direction = SOUTH /\ pos = <<3, 3>>
    /\ raised = NoException /\ printed = <<>>
    /\ After(After(Outcome(LEFT), LEFT), LEFT).self.direction = WEST
    /\ After(After(Outcome(RIGHT), RIGHT), RIGHT).self.direction = EAST


\* the line 'x, y, HEADING' of the current state
ReportLine == IntStr(pos[1]) \o ", " \o IntStr(pos[2]) \o ", " \o Str(direction)
\* the spellings of a bare REPORT among the command lines
ReportLines == {REPORT, <<" ">> \o REPORT}

\* C13: REPORT never mutates state: on a placed robot it leaves placed, pos
\* and direction unchanged and outputs 'x, y, HEADING'; any number of REPORTs
\* in a row produce identical output.  (On an unplaced robot it fails and
\* leaves the state unchanged as well.)
C13_ReportIsPure ==
    \A c \in ReportLines :
        \A r1 \in {Outcome(c)} : \A r2 \in {After(r1, c)} : \A r3 \in {After(r2, c)} :
            /\ \A r \in {r1, r2, r3} :
                  /\ r.self = Self
                  /\ r.command_map = command_map
            /\ placed => \A r \in {r1, r2, r3} :
                            /\ r.raised = NoException
                            /\ r.printed = <<ReportLine>>
            /\ ~placed => \A r \in {r1, r2, r3} : Fails(r, NotPlacedMessage)
\* REPORT has just printed '2, 3, EAST', and a further REPORT prints it again
C13_Witness ==
    /\ placed /\ pos = <<2, 3>> /\ direction = EAST
    /\ raised = NoException
    /\ printed = <<"2, 3, EAST">>
    /\ Outcome(REPORT).printed = printed


\* the step is a PLACE command that returned without an exception
SuccessfulPlaceStep ==
    /\ raised' = NoException
    /\ \E c \in PlaceLines : CallExecuteCommand(c)

\* C14: placed is monotone: it changes from false to true only in a step
\* that is a successful PLACE, and once true it stays true after every
\* later command, successful or failing.
C14_PlacedMonotone ==
    [][ /\ placed => placed'
        /\ (~placed /\ placed') => SuccessfulPlaceStep ]_vars
\* a PLACE outside the grid has just failed on a robot that stays placed
C14_Witness ==
    /\ placed
    /\ raised = Exception(InvalidOperationException, InvalidPositionMessage)


\* the driver is in its loop and the robot has not been placed
RunningUnplaced == status = "running" /\ ~placed
\* the commands whose handler carries the placed check
GuardedLines == {MOVE, LEFT, RIGHT, REPORT}

C16_DriverNeverAborts ==
    /\ status # "crashed"
    /\ (status = "running" /\ commands # <<>>) =>
          \A r \in {Outcome(upper(Head(commands)))} :
              IF strip(upper(Head(commands))) = EXIT
              THEN r.raised = Exception("SystemExit", "0")
              ELSE /\ r.raised.type \in {"None", InvalidOperationException}
                   /\ StatusAfter(r.raised) = "running"


\* the EXIT lines of the command files
ExitLines == {EXIT, <<" ", "e", "x", "i", "t">>}

\* C17: EXIT is terminal: when the driver reaches an EXIT line, 'End of
\* service.' is output and the session ends with status 0 with the robot
\* as it was; after that no step is taken, so no later line of the file is
\* executed and neither the robot nor the output changes again.
C17_ExitIsTerminal ==
    [][ /\ status # "exited0"
        /\ (status = "running" /\ commands # <<>> /\ Head(commands) \in ExitLines) =>
              /\ status' = "exited0"
              /\ printed' = <<"End of service.">>
              /\ UNCHANGED <<placed, pos, direction>> ]_vars
\* the session of a placed robot has ended at an EXIT with lines left unread
C17_Witness ==
    /\ status = "exited0"
    /\ printed = <<"End of service.">>
    /\ placed
    /\ commands # <<>>


\* C18: a line whose keyword (the text before the first space, after
\* trimming) is none of PLACE, LEFT, RIGHT, MOVE, REPORT, EXIT, the empty
\* line included, fails with 'Invalid command. Abort.' on the unplaced and
\* on the placed robot alike, and leaves placed, pos and direction
\* unchanged.
C18_UnknownKeywordFails ==
    \A c \in UnknownLines : \A r \in {Outcome(c)} :
        /\ Fails(r, "Invalid command. Abort.")
        /\ r.printed = <<>>
        /\ r.self = Self
        /\ r.command_map = command_map
\* an unknown line has just been refused on a placed robot
C18_Witness ==
    /\ placed /\ pos = <<4, 0>> /\ direction = NORTH
    /\ raised = Exception(InvalidOperationException, "Invalid command. Abort.")


\* the error of a turn whose turning direction is d
TurnError(d) ==
    Exception(InvalidOperationException,
              "Turning direction should be either LEFT or RIGHT, got " \o Str(d))
\* turning directions that are neither LEFT nor RIGHT
InvalidTurns == {SOME_DIRECTION, <<"l", "e", "f", "t">>, <<"X">>, <<>>, NORTH}
\* the texts of the command lines that a turn could echo
TurnErrors == {TurnError(d) : d \in InvalidTurns \cup {LEFT, RIGHT}}
\* the lines that are not PLACE commands
OtherLines == BareLines \cup TrailingLines \cup UnknownLines

\* C19: on a placed robot, turn called with a turning direction other than
\* LEFT and RIGHT fails with the error that echoes the given value and
\* leaves direction and pos unchanged; and no command line reaches this
\* error through execute_command, because the only entries of command_map
\* that dispatch to turn are LEFT and RIGHT and they supply the turning
\* directions LEFT and RIGHT.
C19_InvalidTurnOnlyDirect ==
    /\ placed =>
          \A d \in InvalidTurns : \A r \in {turn(Self, "direction" :> d)} :
              /\ r.raised = TurnError(d)
              /\ r.self = Self
    /\ \A k \in DOMAIN command_map :
          command_map[k].function = "turn" =>
              /\ k \in {LEFT, RIGHT}
              /\ command_map[k].addtional_parameters["direction"] = k
    /\ \A c \in OtherLines : Outcome(c).raised \notin TurnErrors
\* turn has just refused SOME_DIRECTION on a placed robot
C19_Witness ==
    /\ placed /\ pos = <<0, 0>> /\ direction = EAST
    /\ raised = TurnError(SOME_DIRECTION)


\* command lines of every keyword and every kind of failure
HistoryLines ==
    OtherLines \cup PlaceNoArgumentLines \cup
    {Line(PLACE, Csv(<<"1">>, <<"2">>, EAST)), Line(PLACE, Csv(<<"5">>, <<"5">>, NORTH)),
     Line(PLACE, Csv(<<"1">>, <<"2">>, UP)), Line(PLACE, <<"1", ",", "2">>)}
\* the outcomes r and q show the same behaviour to the client
SameBehaviour(r, q) ==
    /\ r.self = q.self
    /\ r.raised = q.raised
    /\ r.printed = q.printed

\* C20: command dispatch is history-independent: the outcome of
\* execute_command depends on placed, pos, direction and the command line
\* only.  Whatever earlier lines have left in the shared parameter dicts of
\* LEFT and RIGHT, every line behaves as on a robot in the same state with
\* the command_map of a new Robot, also as the second of two lines, and
\* text after LEFT or RIGHT never replaces the turning direction.
C20_HistoryIndependent ==
    /\ \A c \in HistoryLines :
          \A r \in {Outcome(c)} : \A q \in {execute_command(Self, NewCommandMap, c)} :
              /\ SameBehaviour(r, q)
              /\ \A c2 \in {LEFT, RIGHT, MOVE} :
                    SameBehaviour(After(r, c2), After(q, c2))
    /\ placed =>
          /\ Outcome(Line(LEFT, RIGHT)).self.direction = CounterClockwise(direction)
          /\ Outcome(Line(RIGHT, LEFT)).self.direction = Clockwise(direction)
\* LEFT RIGHT was issued earlier and is remembered in the shared dict of
\* LEFT; a plain LEFT still turns the placed robot counter-clockwise
C20_Witness ==
    /\ placed /\ direction = NORTH /\ raised = NoException
    /\ "action_details" \in DOMAIN command_map[LEFT].addtional_parameters
    /\ command_map[LEFT].addtional_parameters["action_details"] = RIGHT
    /\ Outcome(LEFT).self.direction = WEST

=============================================================================
